---- MODULE Spec2Model ----
(***************************************************************************)
(* Multi-agent orchestration core of Mundo-Tango: task decomposition,      *)
(* agent assignment, wave execution, agent selection, inter-agent          *)
(* messaging and model routing, as implemented in                          *)
(*   server/orchestration/agent-messenger.ts (AgentMessenger,              *)
(*     TaskOrchestrator),                                                  *)
(*   server/storage.ts (DatabaseStorage, table schemas),                   *)
(*   server/routes.ts (REST handlers) and                                  *)
(*   the model-router listing (ModelRouter, MODEL_REGISTRY).               *)
(***************************************************************************)
EXTENDS Integers, Sequences, FiniteSets, TLC

(***************************************************************************)
(* Bounds of the model.                                                    *)
(***************************************************************************)
MaxPool == 2
MaxLoadBound == 3
MaxTasks == 3
MaxLoadAssign == 2
MaxHandoffTasks == 2
MaxMessages == 2
MaxUsage == 3

(***************************************************************************)
(* Strings whose characters matter (specialty tags) are sequences of       *)
(* characters, so that toLowerCase() and includes() are computed.          *)
(***************************************************************************)
toLowerCase(s) ==
  [i \in 1..Len(s) |->
     CASE s[i] = "R" -> "r"
       [] s[i] = "S" -> "s"
       [] OTHER -> s[i]]

includes(s, sub) ==
  \E i \in 0..(Len(s) - Len(sub)) : SubSeq(s, i + 1, i + Len(sub)) = sub

strReact == <<"R", "e", "a", "c", "t">>
strreact == <<"r", "e", "a", "c", "t">>
strre == <<"r", "e">>
strsql == <<"s", "q", "l">>
strrust == <<"r", "u", "s", "t">>

AgentIds == {"agent-131-vibe-coding", "agent-78-visual-editor", "agent-79-qa"}

\* Worker ids are compared as strings; rank gives their lexicographic order.
AgentIdRank(a) ==
  CASE a = "agent-131-vibe-coding" -> 1
    [] a = "agent-78-visual-editor" -> 2
    [] a = "agent-79-qa" -> 3

SpecialtyArrays == {<<>>, <<strReact>>, <<strReact, strsql>>}
RequiredArrays == {<<strre>>, <<strreact, strsql>>}
SuccessRates == {0, 50, 100}

AgentCapability ==
  [agentId : AgentIds,
   specialties : SpecialtyArrays,
   maxLoad : 1..MaxLoadBound,
   currentLoad : 0..MaxLoadBound,
   successRate : SuccessRates,
   isActive : BOOLEAN]

(***************************************************************************)
(* TaskOrchestrator.selectBestAgent.  A score is the exact rational        *)
(*   (successRate/100) * max(0, 1 - currentLoad/maxLoad) * (1 + 0.2*match) *)
(* kept as numerator over the denominator 500 * maxLoad.                   *)
(***************************************************************************)
Max(a, b) == IF a >= b THEN a ELSE b

matchCount(agent, task) ==
  Cardinality({i \in 1..Len(task.requiredSpecialties) :
     \E j \in 1..Len(agent.specialties) :
        includes(toLowerCase(agent.specialties[j]),
                 toLowerCase(task.requiredSpecialties[i]))})

scoreNum(agent, task) ==
  agent.successRate * Max(0, agent.maxLoad - agent.currentLoad)
     * (5 + matchCount(agent, task))

scoreDen(agent) == 500 * agent.maxLoad

\* sign of (b.score - a.score) in scored.sort((a, b) => b.score - a.score)
compareScore(a, b, task) ==
  scoreNum(b, task) * scoreDen(a) - scoreNum(a, task) * scoreDen(b)

\* Array.prototype.sort is stable: x goes after every element it does not
\* strictly precede.
RECURSIVE insertSorted(_, _, _)
insertSorted(x, sorted, task) ==
  IF sorted = <<>> THEN <<x>>
  ELSE IF compareScore(x, Head(sorted), task) < 0
       THEN <<x>> \o sorted
       ELSE <<Head(sorted)>> \o insertSorted(x, Tail(sorted), task)

RECURSIVE sortByScore(_, _)
sortByScore(candidates, task) ==
  IF candidates = <<>> THEN <<>>
  ELSE insertSorted(candidates[Len(candidates)],
                    sortByScore(SubSeq(candidates, 1, Len(candidates) - 1), task),
                    task)

\* The mutated sort orders by ascending score ((a, b) => a.score - b.score).
RECURSIVE insertSortedAscending(_, _, _)
insertSortedAscending(x, sorted, task) ==
  IF sorted = <<>> THEN <<x>>
  ELSE IF compareScore(Head(sorted), x, task) < 0
       THEN <<x>> \o sorted
       ELSE <<Head(sorted)>> \o insertSortedAscending(x, Tail(sorted), task)

RECURSIVE sortAscending(_, _)
sortAscending(candidates, task) ==
  IF candidates = <<>> THEN <<>>
  ELSE insertSortedAscending(candidates[Len(candidates)],
                    sortAscending(SubSeq(candidates, 1, Len(candidates) - 1), task),
                    task)

selectBestAgentAscending(candidates, task) ==
  IF candidates = <<>> THEN "undefined"
  ELSE Head(sortAscending(candidates, task))

\* return scored[0]?.agent || candidates[0]
selectBestAgent(candidates, task) ==
  IF candidates = <<>> THEN "undefined"
  ELSE Head(sortByScore(candidates, task))

(***************************************************************************)
(* State.                                                                  *)
(***************************************************************************)
VARIABLES
  agentTasks,         \* table agent_tasks: row i has the serial id i
  agentCapabilities,  \* table agent_capabilities: agentId -> row
  exe,          \* the running executeParallel call: its position and locals
  exe2,         \* a second executeParallel call, started while the first runs
  dispatchLog,  \* history: what each executeParallel call marked in_progress, and when
  asg,          \* the assignTasks calls in flight: position and locals of each
  ata,          \* the assignTaskToAgent call in flight
  agentCollaboration,  \* table agent_collaboration: row i has the serial id i
  hof,          \* the handoffTask call in flight
  available,    \* the models that are configured (availability flag true)
  routed,       \* the selectModel calls made: arguments and returned model
  pool,         \* selectBestAgent: the candidates argument
  subTask,      \* selectBestAgent: the task argument
  selected,     \* selectBestAgent: <<the returned agent>>, <<>> before the call
  dec,          \* the decompose call in flight: position, response and result
  sendLog,      \* history: how each sendMessage call ended
  shr,          \* the shareLearning call in flight: its promise and its sends
  unread,       \* the last query of an agent's messages and the rows it returned
  aiMetrics,    \* calculateCostSavings: the metrics collectAIMetrics returns
  savings,      \* calculateCostSavings: <<the returned object>>, <<>> before the call
  alerts,       \* AlertManager.alerts: the alerts created, in order of creation
  lastAlertTime,  \* AlertManager.lastAlertTime: rule id -> time of its last alert
  now,          \* what Date.now() returns
  chk,          \* the checkRules runs in flight: position and locals of each
  dpl,          \* the deploy call in flight: position, locals and what it was given
  deployments   \* the number of deploy calls made

execVars == <<exe, exe2, dispatchLog>>
assignVars == <<agentCapabilities, asg, ata>>
msgVars == <<agentCollaboration, hof, sendLog, shr, unread>>
routerVars == <<available, routed>>
selectVars == <<pool, subTask, selected>>
decVars == <<dec>>
savingsVars == <<aiMetrics, savings>>
alertVars == <<alerts, lastAlertTime, now, chk>>
deployVars == <<dpl, deployments>>
vars == <<agentTasks, agentCapabilities, exe, exe2, dispatchLog, asg, ata,
          agentCollaboration, hof, available, routed, pool, subTask, selected,
          dec, sendLog, shr, unread, aiMetrics, savings,
          alerts, lastAlertTime, now, chk, dpl, deployments>>

Assigners == 1..2
Checkers == 1..2

TaskIds == 1..MaxTasks
BuildIds == {"1", "2"}
NULL == "null"

(***************************************************************************)
(* Values the variables of the other components hold while one component   *)
(* is checked on its own.                                                  *)
(***************************************************************************)
exeIdle ==
  [pc |-> "idle", buildId |-> NULL, graph |-> <<>>, readyTasks |-> {},
   marked |-> {}, completedIds |-> {}, wave |-> 0, error |-> "none"]

ExecAtRest ==
  /\ exe = exeIdle
  /\ exe2 = exeIdle
  /\ dispatchLog = {}

\* decomposed.subTasks || [], decomposed.dependencies || []
emptyDecomposition == [subTasks |-> <<>>, dependencies |-> {}]

\* loadBefore is history: the currentLoad column as it was when the call began
asgIdle ==
  [pc |-> "idle", decomposition |-> emptyDecomposition,
   subTasks |-> <<>>, mainTaskId |-> 0, bestAgent |-> <<>>, assignment |-> 0,
   assignments |-> <<>>, loadBefore |-> <<>>]
ataIdle == [pc |-> "idle", taskId |-> 0, agentId |-> NULL]

AssignAtRest ==
  /\ agentCapabilities = <<>>
  /\ asg = [p \in Assigners |-> asgIdle]
  /\ ata = ataIdle

hofIdle == [pc |-> "idle", fromAgent |-> NULL, toAgent |-> NULL, taskId |-> 0, messageId |-> 0]

\* sends: recipient -> state of its sendMessage promise
shrIdle == [pc |-> "idle", toAgents |-> {}, sends |-> <<>>, error |-> NULL]

\* rows: the ids of the returned rows, in the order returned
noQuery == [call |-> "none", agentId |-> NULL, rows |-> <<>>]

MessengerAtRest ==
  /\ agentCollaboration = <<>>
  /\ hof = hofIdle
  /\ sendLog = {}
  /\ shr = shrIdle
  /\ unread = noQuery

RouterAtRest ==
  /\ available = {}
  /\ routed = {}

SelectAtRest ==
  /\ pool = <<>>
  /\ subTask = [requiredSpecialties |-> <<>>]
  /\ selected = <<>>

decIdle ==
  [pc |-> "idle", response |-> [kind |-> "none", decomposition |-> emptyDecomposition],
   mainTaskId |-> 0, error |-> "none"]

DecomposeAtRest == dec = decIdle

SavingsAtRest ==
  /\ aiMetrics = [totalRequests |-> 0, totalCost |-> 0]
  /\ savings = <<>>

\* times are in minutes; the clock reads as Date.now() does, far from 0
StartTime == 5

\* i: the position in the rules; checked, threw: the rules whose condition
\* has settled, and has thrown, in this run; newAlerts: the sources of the
\* alerts the run returns
chkIdle == [pc |-> "idle", i |-> 0, checked |-> {}, threw |-> {}, newAlerts |-> {}]

AlertAtRest ==
  /\ alerts = <<>>
  /\ lastAlertTime = <<>>
  /\ now = StartTime
  /\ chk = [r \in Checkers |-> chkIdle]

\* phases: the phase of each progress entry pushed; readiness, monitored,
\* validated: what the pre-flight checks and the health checks returned to
\* this call; staged, rolledOut, rollbacks: what the call has done
dplIdle ==
  [pc |-> "idle", version |-> NULL, phases |-> <<>>, readiness |-> NULL,
   monitored |-> <<>>, validated |-> NULL, staged |-> FALSE, rolledOut |-> FALSE,
   rollbacks |-> 0, error |-> NULL, result |-> <<>>]

DeployAtRest ==
  /\ dpl = dplIdle
  /\ deployments = 0

(***************************************************************************)
(* DatabaseStorage: task rows.                                             *)
(***************************************************************************)
setStatus(tasks, id, status) == [tasks EXCEPT ![id].status = status]

\* POST /api/tasks -> storage.createAgentTask: the body gives every column.
createAgentTask(buildId, status, assignedAgent, dependencies) ==
  /\ Len(agentTasks) < MaxTasks
  /\ agentTasks' = Append(agentTasks,
        [buildId |-> buildId, status |-> status,
         assignedAgent |-> assignedAgent, dependencies |-> dependencies])

CreateAgentTask ==
  /\ \E b \in BuildIds, st \in {"pending", "assigned"}, deps \in SUBSET TaskIds :
        createAgentTask(b, st,
          IF st = "pending" THEN NULL ELSE "agent-131-vibe-coding", deps)
  /\ UNCHANGED <<execVars, assignVars, selectVars, msgVars, routerVars, decVars, savingsVars, alertVars, deployVars>>

\* The execution callback of an in_progress task reports its result through
\* PATCH /api/tasks/:id -> storage.updateAgentTask(id, {status}).
ReportResult ==
  /\ \E id \in 1..Len(agentTasks), st \in {"completed", "failed"} :
        /\ agentTasks[id].status = "in_progress"
        /\ agentTasks' = setStatus(agentTasks, id, st)
  /\ UNCHANGED <<execVars, assignVars, selectVars, msgVars, routerVars, decVars, savingsVars, alertVars, deployVars>>

(***************************************************************************)
(* TaskOrchestrator.executeParallel(buildId).  The call is split at its    *)
(* awaits: the read of the build's rows, each UPDATE of Promise.all, and   *)
(* the synchronous wave bookkeeping that follows the last UPDATE.          *)
(***************************************************************************)
buildExecutionGraph(tasks) == tasks

\* rows of the build as read at the start of the call: id -> row
buildRows(buildId) ==
  LET ids == {i \in 1..Len(agentTasks) : agentTasks[i].buildId = buildId}
  IN  [i \in ids |-> agentTasks[i]]

initialReady(graph) ==
  {t \in DOMAIN graph :
     graph[t].dependencies = {} /\ graph[t].status = "assigned"}

\* the filter without its test of the dependencies
nextReadyWithoutDependencies(graph, completedIds) ==
  {t \in DOMAIN graph : t \notin completedIds /\ graph[t].status = "assigned"}

nextReady(graph, completedIds) ==
  {t \in DOMAIN graph :
     /\ t \notin completedIds
     /\ graph[t].status = "assigned"
     /\ \A depId \in graph[t].dependencies : depId \in completedIds}

ExecStart ==
  /\ exe.pc = "idle"
  /\ \E b \in BuildIds :
       LET graph == buildExecutionGraph(buildRows(b))
           ready == initialReady(graph)
       IN  exe' = [exe EXCEPT !.pc = IF ready = {} THEN "done" ELSE "wave",
                              !.buildId = b, !.graph = graph,
                              !.readyTasks = ready, !.marked = {},
                              !.completedIds = {},
                              !.wave = IF ready = {} THEN 0 ELSE 1]
  /\ UNCHANGED <<agentTasks, exe2, dispatchLog, assignVars, selectVars, msgVars, routerVars, decVars, savingsVars, alertVars, deployVars>>

depsCompleted(id) ==
  \A d \in agentTasks[id].dependencies :
     d \in 1..Len(agentTasks) /\ agentTasks[d].status = "completed"

\* db.update(agentTasks).set({status: 'in_progress'}).where(id = task.id)
ExecMark ==
  /\ exe.pc = "wave"
  /\ \E t \in exe.readyTasks \ exe.marked :
        /\ agentTasks' = setStatus(agentTasks, t, "in_progress")
        /\ exe' = [exe EXCEPT !.marked = @ \cup {t}]
        /\ dispatchLog' = dispatchLog \cup
              {[task |-> t, wave |-> exe.wave, from |-> agentTasks[t].status,
                depsCompleted |-> depsCompleted(t), by |-> 1]}
  /\ UNCHANGED <<exe2, assignVars, selectVars, msgVars, routerVars, decVars, savingsVars, alertVars, deployVars>>

ExecWaveEnd ==
  /\ exe.pc = "wave"
  /\ exe.marked = exe.readyTasks
  /\ LET completedIds == exe.completedIds \cup exe.readyTasks
         ready == nextReady(exe.graph, completedIds)
     IN  exe' = [exe EXCEPT !.pc = IF ready = {} THEN "done" ELSE "wave",
                            !.completedIds = completedIds,
                            !.readyTasks = ready, !.marked = {},
                            !.wave = IF ready = {} THEN @ ELSE @ + 1]
  /\ UNCHANGED <<agentTasks, exe2, dispatchLog, assignVars, selectVars, msgVars, routerVars, decVars, savingsVars, alertVars, deployVars>>

InitExec ==
  agentTasks = <<>> /\ ExecAtRest /\ AssignAtRest /\ MessengerAtRest /\ RouterAtRest /\ SelectAtRest
  /\ DecomposeAtRest /\ SavingsAtRest /\ AlertAtRest /\ DeployAtRest

NextExec == CreateAgentTask \/ ReportResult \/ ExecStart \/ ExecMark \/ ExecWaveEnd

SpecExec == InitExec /\ [][NextExec]_vars

(***************************************************************************)
(* TaskOrchestrator.assignTasks(decomposition, userId), called by          *)
(* POST /api/orchestration/assign with the decomposition of the request    *)
(* body.  One call is split at its awaits: the read of the active agents   *)
(* (the filter, the fallback and selectBestAgent follow it synchronously), *)
(* the INSERT of the task row, and the UPDATE of the agent's load.         *)
(***************************************************************************)
Orderings(S) ==
  {q \in [1..Cardinality(S) -> S] : \A i, j \in DOMAIN q : i # j => q[i] # q[j]}

\* candidates.filter(agent => requiredSpecialties.some(req => specialties.some(...)))
matchesSpecialty(agent, task) ==
  \E i \in 1..Len(task.requiredSpecialties) :
    \E j \in 1..Len(agent.specialties) :
      \/ includes(toLowerCase(agent.specialties[j]),
                  toLowerCase(task.requiredSpecialties[i]))
      \/ includes(toLowerCase(task.requiredSpecialties[i]),
                  toLowerCase(agent.specialties[j]))

\* the fallback without its second choice, candidates[0]
fallbackAgentDesignatedOnly(candidates) ==
  LET found == SelectSeq(candidates, LAMBDA a : a.agentId = "agent-131-vibe-coding")
  IN  IF found # <<>> THEN <<found[1]>> ELSE <<>>

\* candidates.find(a => a.agentId === 'agent-131-vibe-coding') || candidates[0]
fallbackAgent(candidates) ==
  LET found == SelectSeq(candidates, LAMBDA a : a.agentId = "agent-131-vibe-coding")
  IN  IF found # <<>> THEN <<found[1]>>
      ELSE IF candidates # <<>> THEN <<candidates[1]>>
      ELSE <<>>

\* the matching agents handed to selectBestAgent; <<>> stands for [undefined]
matchingAgents(candidates, task) ==
  LET matching == SelectSeq(candidates, LAMBDA a : matchesSpecialty(a, task))
  IN  IF matching = <<>> THEN fallbackAgent(candidates) ELSE matching

getDependencyIds(taskId, dependencies) == {}

\* the sub-tasks of a request body: one matched by two agents, one by none
SubTasks ==
  [id : {"t1"}, requiredSpecialties : {<<strreact>>, <<strrust>>}]

\* a sub-task that depends on the first one
dependentSubTask == [id |-> "t2", requiredSpecialties |-> <<strreact>>]

\* the decompositions of a request body: TaskDecomposition without mainTaskId
Decompositions ==
  {[subTasks |-> <<st>>, dependencies |-> {}] : st \in SubTasks}
    \cup {[subTasks |-> <<[id |-> "t1", requiredSpecialties |-> <<strreact>>],
                          dependentSubTask>>,
           dependencies |-> {[taskId |-> "t2", dependsOn |-> {"t1"}]}]}

currentLoads == [a \in DOMAIN agentCapabilities |-> agentCapabilities[a].currentLoad]

\* the decompositions of one sub-task
SingleDecompositions == {d \in Decompositions : Len(d.subTasks) = 1}

AssignStartFrom(p, decompositions) ==
  /\ asg[p].pc = "idle"
  /\ \E d \in decompositions :
        asg' = [asg EXCEPT ![p] = [pc |-> IF d.subTasks = <<>> THEN "done" ELSE "read",
                                   decomposition |-> d,
                                   subTasks |-> d.subTasks,
                                   mainTaskId |-> p, bestAgent |-> <<>>,
                                   assignment |-> 0, assignments |-> <<>>,
                                   loadBefore |-> currentLoads]]
  /\ UNCHANGED <<agentTasks, agentCapabilities, ata, execVars, selectVars, msgVars, routerVars, decVars, savingsVars, alertVars, deployVars>>

AssignStart(p) == AssignStartFrom(p, SingleDecompositions)

\* a WHERE clause that every row satisfies
whereAnyRow(row) == TRUE

\* .where(sql`${agentCapabilities.isActive} = true`)
whereIsActive(row) == row.isActive

\* db.select().from(agentCapabilities).where(isActive = true): no ORDER BY,
\* the rows come in any order.  An empty result makes the fallback push
\* undefined, and selectBestAgent throws on reading its currentLoad.
AssignRead(p) ==
  /\ asg[p].pc = "read"
  /\ LET active == {a \in DOMAIN agentCapabilities : whereIsActive(agentCapabilities[a])}
     IN  \E order \in Orderings(active) :
           LET candidates == [i \in 1..Len(order) |-> agentCapabilities[order[i]]]
               matching == matchingAgents(candidates, Head(asg[p].subTasks))
           IN  IF matching = <<>>
               THEN asg' = [asg EXCEPT ![p].pc = "failed"]
               ELSE asg' = [asg EXCEPT ![p].pc = "insert",
                       ![p].bestAgent =
                          <<selectBestAgent(matching, Head(asg[p].subTasks))>>]
  /\ UNCHANGED <<agentTasks, agentCapabilities, ata, execVars, selectVars, msgVars, routerVars, decVars, savingsVars, alertVars, deployVars>>

\* limit: the number of rows the table of a run can hold
AssignInsertWithin(p, limit) ==
  /\ asg[p].pc = "insert"
  /\ Len(agentTasks) < limit
  /\ agentTasks' = Append(agentTasks,
        [buildId |-> IF asg[p].mainTaskId = 1 THEN "1" ELSE "2",
         status |-> "assigned",
         assignedAgent |-> asg[p].bestAgent[1].agentId,
         dependencies |-> getDependencyIds(Head(asg[p].subTasks).id,
                                           asg[p].decomposition.dependencies)])
  /\ asg' = [asg EXCEPT ![p].pc = "update", ![p].assignment = Len(agentTasks) + 1]
  /\ UNCHANGED <<agentCapabilities, ata, execVars, selectVars, msgVars, routerVars, decVars, savingsVars, alertVars, deployVars>>

AssignInsert(p) == AssignInsertWithin(p, MaxTasks)

\* UPDATE agent_capabilities SET current_load = current_load + delta WHERE agent_id = ...
updateAgentLoad(table, agentId, loadDelta) ==
  IF agentId \in DOMAIN table
  THEN [table EXCEPT ![agentId].currentLoad = @ + loadDelta]
  ELSE table

AssignUpdate(p) ==
  /\ asg[p].pc = "update"
  /\ LET agentId == asg[p].bestAgent[1].agentId
     IN  agentCapabilities' = updateAgentLoad(agentCapabilities, agentId, 1)
  /\ asg' = [asg EXCEPT ![p].subTasks = Tail(@),
                        ![p].assignments =
                           Append(@, [taskId |-> asg[p].assignment,
                                      agentId |-> asg[p].bestAgent[1].agentId]),
                        ![p].pc = IF Tail(asg[p].subTasks) = <<>> THEN "done" ELSE "read"]
  /\ UNCHANGED <<agentTasks, ata, execVars, selectVars, msgVars, routerVars, decVars, savingsVars, alertVars, deployVars>>

(***************************************************************************)
(* POST /api/tasks/:id/assign -> DatabaseStorage.assignTaskToAgent: the    *)
(* UPDATE of the task row, then, if a row was updated, updateAgentLoad.    *)
(***************************************************************************)
AssignTaskToAgentStart ==
  /\ ata.pc = "idle"
  /\ \E taskId \in TaskIds, agentId \in AgentIds :
        IF taskId \in 1..Len(agentTasks)
        THEN /\ agentTasks' = [agentTasks EXCEPT ![taskId].assignedAgent = agentId,
                                                 ![taskId].status = "in_progress"]
             /\ ata' = [pc |-> "load", taskId |-> taskId, agentId |-> agentId]
        ELSE /\ UNCHANGED agentTasks
             /\ ata' = [pc |-> "done", taskId |-> taskId, agentId |-> agentId]
  /\ UNCHANGED <<agentCapabilities, asg, execVars, selectVars, msgVars, routerVars, decVars, savingsVars, alertVars, deployVars>>

AssignTaskToAgentLoad ==
  /\ ata.pc = "load"
  /\ agentCapabilities' = updateAgentLoad(agentCapabilities, ata.agentId, 1)
  /\ ata' = [ata EXCEPT !.pc = "done"]
  /\ UNCHANGED <<agentTasks, asg, execVars, selectVars, msgVars, routerVars, decVars, savingsVars, alertVars, deployVars>>

\* the agent table a run starts from: rows created through POST /api/agents
AgentProfile(a) ==
  CASE a = "agent-131-vibe-coding" -> [specialties |-> <<strReact>>, successRate |-> 100]
    [] a = "agent-78-visual-editor" -> [specialties |-> <<strReact, strsql>>, successRate |-> 50]
    [] a = "agent-79-qa" -> [specialties |-> <<>>, successRate |-> 100]

AgentRows(maxLoad) ==
  {r \in AgentCapability :
     /\ r.specialties = AgentProfile(r.agentId).specialties
     /\ r.successRate = AgentProfile(r.agentId).successRate
     /\ r.maxLoad = maxLoad
     /\ r.currentLoad <= r.maxLoad}

AgentTables ==
  UNION {{t \in [AgentIds -> AgentRows(maxLoad)] : \A a \in AgentIds : t[a].agentId = a} :
           maxLoad \in 1..MaxLoadAssign}

InitAssign ==
  /\ agentTasks = <<>>
  /\ ExecAtRest
  /\ SelectAtRest
  /\ MessengerAtRest
  /\ RouterAtRest
  /\ DecomposeAtRest /\ SavingsAtRest /\ AlertAtRest /\ DeployAtRest
  /\ agentCapabilities \in AgentTables
  /\ asg = [p \in Assigners |-> asgIdle]
  /\ ata = ataIdle

NextAssign ==
  \/ \E p \in Assigners : AssignStart(p)
  \/ \E p \in Assigners : AssignRead(p)
  \/ \E p \in Assigners : AssignInsert(p)
  \/ \E p \in Assigners : AssignUpdate(p)
  \/ AssignTaskToAgentStart
  \/ AssignTaskToAgentLoad

SpecAssign == InitAssign /\ [][NextAssign]_vars

(***************************************************************************)
(* One assignTasks call for a batch of BatchSize sub-tasks that all        *)
(* require react, over three active agents that all have the specialty     *)
(* React, the same successRate, no load, and room for the whole batch.     *)
(***************************************************************************)
BatchSize == 10
BatchMaxLoads == {BatchSize, 2 * BatchSize}

batchDecomposition ==
  [subTasks |-> [i \in 1..BatchSize |-> [id |-> "t1", requiredSpecialties |-> <<strreact>>]],
   dependencies |-> {}]

BatchAgentTables ==
  [AgentIds -> [agentId : AgentIds, specialties : {<<strReact>>},
                maxLoad : BatchMaxLoads, currentLoad : {0},
                successRate : {100}, isActive : {TRUE}]]

BatchStart == AssignStartFrom(1, {batchDecomposition})

InitBatch ==
  /\ agentTasks = <<>>
  /\ ExecAtRest /\ SelectAtRest /\ MessengerAtRest /\ RouterAtRest
  /\ DecomposeAtRest /\ SavingsAtRest /\ AlertAtRest /\ DeployAtRest
  /\ agentCapabilities \in {t \in BatchAgentTables : \A a \in AgentIds : t[a].agentId = a}
  /\ asg = [p \in Assigners |-> asgIdle]
  /\ ata = ataIdle

NextBatch ==
  \/ BatchStart
  \/ AssignRead(1)
  \/ AssignInsertWithin(1, BatchSize)
  \/ AssignUpdate(1)

SpecBatch == InitBatch /\ [][NextBatch]_vars

(***************************************************************************)
(* TaskOrchestrator.decompose(userRequest, userId), split at its awaits:   *)
(* the chat completion, then JSON.parse and the INSERT of the main task.   *)
(* The caller posts the returned decomposition to                          *)
(* POST /api/orchestration/assign.                                         *)
(***************************************************************************)
\* a response whose dependency names no sub-task of the response
danglingDecomposition ==
  [subTasks |-> <<[id |-> "t1", requiredSpecialties |-> <<strreact>>]>>,
   dependencies |-> {[taskId |-> "t1", dependsOn |-> {"t9"}]}]

\* what the chat completion can do: throw, or return content that is not
\* JSON, that is empty, or that is a JSON object
Responses ==
  {[kind |-> k, decomposition |-> emptyDecomposition] :
      k \in {"throws", "unparsable", "empty"}}
    \cup {[kind |-> "json", decomposition |-> d] :
            d \in Decompositions \cup {danglingDecomposition}}

DecomposeCall ==
  /\ dec.pc = "idle"
  /\ dec' = [dec EXCEPT !.pc = "called"]
  /\ UNCHANGED <<agentTasks, execVars, assignVars, selectVars, msgVars, routerVars, savingsVars, alertVars, deployVars>>

\* the completion settles; JSON.parse(content || '{}') follows synchronously
DecomposeResponse ==
  /\ dec.pc = "called"
  /\ \E r \in Responses :
        dec' = CASE r.kind = "throws" ->
                      [dec EXCEPT !.pc = "failed", !.response = r, !.error = "APIError"]
                 [] r.kind = "unparsable" ->
                      [dec EXCEPT !.pc = "failed", !.response = r, !.error = "SyntaxError"]
                 [] OTHER -> [dec EXCEPT !.pc = "insert", !.response = r]
  /\ UNCHANGED <<agentTasks, execVars, assignVars, selectVars, msgVars, routerVars, savingsVars, alertVars, deployVars>>

\* db.insert(agentTasks).values({buildId, type: 'orchestration', status: 'pending', ...})
DecomposeInsert ==
  /\ dec.pc = "insert"
  /\ createAgentTask("build-now", "pending", NULL, {})
  /\ dec' = [dec EXCEPT !.pc = "done", !.mainTaskId = Len(agentTasks) + 1]
  /\ UNCHANGED <<execVars, assignVars, selectVars, msgVars, routerVars, savingsVars, alertVars, deployVars>>

\* the caller passes the decomposition it got on to assignTasks
AssignDecomposition ==
  /\ dec.pc = "done"
  /\ AssignStartFrom(1, {dec.response.decomposition})

InitDecompose == InitAssign

NextDecompose ==
  \/ DecomposeCall
  \/ DecomposeResponse
  \/ DecomposeInsert
  \/ AssignDecomposition
  \/ AssignRead(1)
  \/ AssignInsert(1)
  \/ AssignUpdate(1)

SpecDecompose == InitDecompose /\ [][NextDecompose]_vars

(***************************************************************************)
(* A whole build: POST /api/orchestration/assign, then                     *)
(* POST /api/orchestration/execute/:buildId, the execution callbacks       *)
(* reporting each task's result.                                           *)
(***************************************************************************)
InitBuild == InitAssign

NextBuild ==
  \/ \E p \in Assigners : AssignStart(p)
  \/ \E p \in Assigners : AssignRead(p)
  \/ \E p \in Assigners : AssignInsert(p)
  \/ \E p \in Assigners : AssignUpdate(p)
  \/ ExecStart
  \/ ExecMark
  \/ ExecWaveEnd
  \/ ReportResult

SpecBuild == InitBuild /\ [][NextBuild]_vars

(***************************************************************************)
(* AgentMessenger.handoffTask(fromAgent, toAgent, taskId, context):        *)
(* sendMessage INSERTs the task_handoff row; the broadcasts and            *)
(* notifyUrgent (priority 9 >= 8) follow; then the task row is UPDATEd.    *)
(* Nothing joins the two writes in a transaction, and nothing catches a    *)
(* failure between them.                                                   *)
(***************************************************************************)
HandoffAgents == {"agent-131-vibe-coding", "agent-79-qa"}
HandoffPriority == 9

\* db.insert(agentCollaboration).values({..., read: false}); taskId and
\* payload together are the payload column, createdAt is defaultNow()
sendMessage(message) ==
  agentCollaboration' = Append(agentCollaboration,
    [fromAgentId |-> message.fromAgentId, toAgentId |-> message.toAgentId,
     messageType |-> message.messageType, taskId |-> message.taskId,
     payload |-> message.payload,
     priority |-> message.priority, read |-> FALSE,
     createdAt |-> Len(agentCollaboration) + 1])

HandoffSend ==
  /\ hof.pc = "idle"
  /\ Len(agentCollaboration) < MaxMessages
  /\ \E fromAgent \in HandoffAgents, toAgent \in HandoffAgents,
        taskId \in 1..MaxHandoffTasks :
        /\ sendMessage([fromAgentId |-> fromAgent, toAgentId |-> toAgent,
                        messageType |-> "task_handoff", taskId |-> taskId,
                        payload |-> "context", priority |-> HandoffPriority])
        /\ hof' = [pc |-> "sent", fromAgent |-> fromAgent, toAgent |-> toAgent,
                   taskId |-> taskId, messageId |-> Len(agentCollaboration) + 1]
  /\ UNCHANGED <<agentTasks, execVars, assignVars, selectVars, routerVars, decVars, savingsVars, alertVars, deployVars, sendLog, shr, unread>>

\* how the sendMessage call of the handoff in flight ended, and whether the
\* task row was reassigned after it
sendOutcome(broadcast, returned, reassigned) ==
  [messageId |-> hof.messageId, broadcast |-> broadcast, returned |-> returned,
   reassigned |-> reassigned]

\* an emit of the broadcast or notifyUrgent throws (sendMessage rejects
\* without returning the id), or the UPDATE itself throws: handoffTask
\* rejects, the message row stays, the task row is untouched
HandoffFail ==
  /\ hof.pc = "sent"
  /\ hof' = hofIdle
  /\ \E thrownBy \in {"broadcast", "update"} :
        sendLog' = sendLog \cup
          {IF thrownBy = "broadcast"
           THEN sendOutcome("failed", FALSE, FALSE)
           ELSE sendOutcome("ok", TRUE, FALSE)}
  /\ UNCHANGED <<agentTasks, agentCollaboration, shr, unread, execVars, assignVars, selectVars, routerVars, decVars, savingsVars, alertVars, deployVars>>

\* db.update(agentTasks).set({assignedAgent: toAgent, status: 'assigned'})
\*   .where(eq(agentTasks.id, taskId))
HandoffUpdate ==
  /\ hof.pc = "sent"
  /\ agentTasks' =
        IF hof.taskId \in 1..Len(agentTasks)
        THEN [agentTasks EXCEPT ![hof.taskId].assignedAgent = hof.toAgent,
                                ![hof.taskId].status = "assigned"]
        ELSE agentTasks
  /\ hof' = hofIdle
  /\ sendLog' = sendLog \cup {sendOutcome("ok", TRUE, TRUE)}
  /\ UNCHANGED <<agentCollaboration, shr, unread, execVars, assignVars, selectVars, routerVars, decVars, savingsVars, alertVars, deployVars>>

Statuses == {"pending", "assigned", "in_progress", "completed", "failed"}

\* POST /api/tasks for a task of an agent, no dependencies
CreateTaskForAgent ==
  /\ Len(agentTasks) < MaxHandoffTasks
  /\ \E agentId \in HandoffAgents : createAgentTask("1", "assigned", agentId, {})
  /\ UNCHANGED <<execVars, assignVars, selectVars, msgVars, routerVars, decVars, savingsVars, alertVars, deployVars>>

\* PATCH /api/tasks/:id -> storage.updateAgentTask(id, {status})
UpdateAgentTask ==
  /\ \E id \in 1..Len(agentTasks), st \in Statuses :
        agentTasks' = setStatus(agentTasks, id, st)
  /\ UNCHANGED <<execVars, assignVars, selectVars, msgVars, routerVars, decVars, savingsVars, alertVars, deployVars>>

InitHandoff ==
  agentTasks = <<>> /\ ExecAtRest /\ AssignAtRest /\ MessengerAtRest /\ RouterAtRest /\ SelectAtRest
  /\ DecomposeAtRest /\ SavingsAtRest /\ AlertAtRest /\ DeployAtRest

NextHandoff ==
  \/ CreateTaskForAgent
  \/ UpdateAgentTask
  \/ AssignTaskToAgentStart
  \/ AssignTaskToAgentLoad
  \/ HandoffSend
  \/ HandoffFail
  \/ HandoffUpdate

SpecHandoff == InitHandoff /\ [][NextHandoff]_vars

(***************************************************************************)
(* Assignments and handoffs over one agent table: assignTasks,             *)
(* POST /api/tasks/:id/assign and handoffTask, from agents that hold no    *)
(* task, carry no load and are all active.                                 *)
(***************************************************************************)
InitLoad ==
  /\ InitAssign
  /\ \A a \in AgentIds :
        agentCapabilities[a].currentLoad = 0 /\ agentCapabilities[a].isActive

NextLoad ==
  \/ AssignStart(1)
  \/ AssignRead(1)
  \/ AssignInsert(1)
  \/ AssignUpdate(1)
  \/ AssignTaskToAgentStart
  \/ AssignTaskToAgentLoad
  \/ HandoffSend
  \/ HandoffFail
  \/ HandoffUpdate

SpecLoad == InitLoad /\ [][NextLoad]_vars

(***************************************************************************)
(* Stopping a build while executeParallel runs.  executeParallel takes no  *)
(* signal and reads no flag; what the API offers is                        *)
(* PATCH /api/tasks/:id, by which the tasks not yet started are taken out  *)
(* of status assigned, the status the scheduler's readiness test asks for. *)
(***************************************************************************)
WithdrawTask ==
  /\ exe.pc = "wave"
  /\ \E id \in 1..Len(agentTasks) :
        /\ agentTasks[id].status = "assigned"
        /\ agentTasks' = setStatus(agentTasks, id, "pending")
  /\ UNCHANGED <<execVars, assignVars, selectVars, msgVars, routerVars, decVars, savingsVars, alertVars, deployVars>>

InitStop == InitExec

NextStop ==
  \/ CreateAgentTask
  \/ ReportResult
  \/ ExecStart
  \/ ExecMark
  \/ ExecWaveEnd
  \/ WithdrawTask

SpecStop == InitStop /\ [][NextStop]_vars

(***************************************************************************)
(* Two executeParallel calls on one build.  POST /api/orchestration/execute *)
(* starts executeParallel without awaiting it and answers at once, and     *)
(* nothing records that a build is being executed: a second POST for the   *)
(* same build starts a second call, which reads the rows for itself and    *)
(* runs the same loop.                                                     *)
(***************************************************************************)
\* POST /api/tasks for a task of build "1", already assigned, that depends
\* on nothing or on the task created before it
CreateChainTask ==
  /\ \E deps \in {{}, {Len(agentTasks)} \ {0}} :
        createAgentTask("1", "assigned", "agent-131-vibe-coding", deps)
  /\ UNCHANGED <<execVars, assignVars, selectVars, msgVars, routerVars, decVars, savingsVars, alertVars, deployVars>>

ExecStartSecond ==
  /\ exe.pc # "idle"
  /\ exe2.pc = "idle"
  /\ LET graph == buildExecutionGraph(buildRows(exe.buildId))
         ready == initialReady(graph)
     IN  exe2' = [exe2 EXCEPT !.pc = IF ready = {} THEN "done" ELSE "wave",
                              !.buildId = exe.buildId, !.graph = graph,
                              !.readyTasks = ready, !.marked = {},
                              !.completedIds = {},
                              !.wave = IF ready = {} THEN 0 ELSE 1]
  /\ UNCHANGED <<agentTasks, exe, dispatchLog, assignVars, selectVars, msgVars, routerVars, decVars, savingsVars, alertVars, deployVars>>

ExecMarkSecond ==
  /\ exe2.pc = "wave"
  /\ \E t \in exe2.readyTasks \ exe2.marked :
        /\ agentTasks' = setStatus(agentTasks, t, "in_progress")
        /\ exe2' = [exe2 EXCEPT !.marked = @ \cup {t}]
        /\ dispatchLog' = dispatchLog \cup
              {[task |-> t, wave |-> exe2.wave, from |-> agentTasks[t].status,
                depsCompleted |-> depsCompleted(t), by |-> 2]}
  /\ UNCHANGED <<exe, assignVars, selectVars, msgVars, routerVars, decVars, savingsVars, alertVars, deployVars>>

ExecWaveEndSecond ==
  /\ exe2.pc = "wave"
  /\ exe2.marked = exe2.readyTasks
  /\ LET completedIds == exe2.completedIds \cup exe2.readyTasks
         ready == nextReady(exe2.graph, completedIds)
     IN  exe2' = [exe2 EXCEPT !.pc = IF ready = {} THEN "done" ELSE "wave",
                              !.completedIds = completedIds,
                              !.readyTasks = ready, !.marked = {},
                              !.wave = IF ready = {} THEN @ ELSE @ + 1]
  /\ UNCHANGED <<agentTasks, exe, dispatchLog, assignVars, selectVars, msgVars, routerVars, decVars, savingsVars, alertVars, deployVars>>

InitConcurrent == InitExec

NextConcurrent ==
  \/ CreateChainTask
  \/ ReportResult
  \/ ExecStart
  \/ ExecMark
  \/ ExecWaveEnd
  \/ ExecStartSecond
  \/ ExecMarkSecond
  \/ ExecWaveEndSecond

SpecConcurrent == InitConcurrent /\ [][NextConcurrent]_vars

(***************************************************************************)
(* The writers of agent_capabilities.current_load outside assignTasks:     *)
(* PATCH /api/agents/:agentId -> storage.updateAgentCapability, whose body *)
(* is checked by insertAgentCapabilitySchema.partial() (currentLoad: any   *)
(* integer), and DatabaseStorage.updateAgentLoad(agentId, loadDelta).     *)
(***************************************************************************)
LoadUpdates == {-1, 0, 1}
LoadDeltas == {-1, 1}

\* db.update(agentCapabilities).set({...updates}).where(agentId = ...)
UpdateAgentCapability ==
  /\ \E agentId \in AgentIds, currentLoad \in LoadUpdates :
        agentCapabilities' = [agentCapabilities EXCEPT ![agentId].currentLoad = currentLoad]
  /\ UNCHANGED <<agentTasks, asg, ata, execVars, selectVars, msgVars, routerVars, decVars, savingsVars, alertVars, deployVars>>

\* the loads stay within what the rows of a run can hold
UpdateAgentLoad ==
  /\ \E agentId \in AgentIds, loadDelta \in LoadDeltas :
        /\ agentCapabilities[agentId].currentLoad + loadDelta \in -MaxLoadBound..MaxLoadBound
        /\ agentCapabilities' = updateAgentLoad(agentCapabilities, agentId, loadDelta)
  /\ UNCHANGED <<agentTasks, asg, ata, execVars, selectVars, msgVars, routerVars, decVars, savingsVars, alertVars, deployVars>>

InitAgents == InitAssign

NextAgents ==
  \/ UpdateAgentCapability
  \/ UpdateAgentLoad

SpecAgents == InitAgents /\ [][NextAgents]_vars

(***************************************************************************)
(* The other operations on agent_collaboration: AgentMessenger.requestHelp, *)
(* shareLearning and markAsRead, and DatabaseStorage.sendAgentMessage and  *)
(* markMessageAsRead behind POST /api/messages and                         *)
(* PATCH /api/messages/:id/read.                                           *)
(***************************************************************************)
Urgencies == {"low", "medium", "high", "critical"}

\* a map that gives high the priority of medium
priorityMapFlat(urgency) ==
  CASE urgency = "low" -> 4
    [] urgency = "medium" -> 6
    [] urgency = "high" -> 6
    [] urgency = "critical" -> 10

\* const priorityMap = {'low': 4, 'medium': 6, 'high': 8, 'critical': 10}
priorityMap(urgency) ==
  CASE urgency = "low" -> 4
    [] urgency = "medium" -> 6
    [] urgency = "high" -> 8
    [] urgency = "critical" -> 10

\* requestHelp: one sendMessage; the row is inserted before any broadcast, so
\* the row is the same whether the call then resolves or rejects
RequestHelp ==
  /\ Len(agentCollaboration) < MaxMessages
  /\ \E urgency \in Urgencies :
        sendMessage([fromAgentId |-> "agent-79-qa", toAgentId |-> "agent-131-vibe-coding",
                     messageType |-> "request_help", taskId |-> 0,
                     payload |-> urgency, priority |-> priorityMap(urgency)])
  /\ UNCHANGED <<hof, sendLog, shr, unread, agentTasks, execVars, assignVars, selectVars,
                 routerVars, decVars, savingsVars, alertVars, deployVars>>

LearningPriority == 5
ShareRecipients == AgentIds

\* toAgents.map(toAgent => this.sendMessage({...})): every send is started,
\* each up to its INSERT, before Promise.all is awaited
ShareLearning ==
  /\ shr.pc = "idle"
  /\ \E toAgents \in SUBSET ShareRecipients :
        /\ Len(agentCollaboration) + Cardinality(toAgents) <= MaxMessages
        /\ shr' = [pc |-> IF toAgents = {} THEN "resolved" ELSE "pending",
                   toAgents |-> toAgents,
                   sends |-> [r \in toAgents |-> "pending"],
                   error |-> NULL]
  /\ UNCHANGED <<agentCollaboration, hof, sendLog, unread, agentTasks, execVars, assignVars,
                 selectVars, routerVars, decVars, savingsVars, alertVars, deployVars>>

\* Promise.all after the send to r has settled as outcome: it rejects with
\* the first rejection and resolves once every send is fulfilled; a settled
\* promise does not change
promiseAll(r, outcome) ==
  LET sends == [shr.sends EXCEPT ![r] = outcome]
  IN  [shr EXCEPT
         !.sends = sends,
         !.pc = IF shr.pc # "pending" THEN shr.pc
                ELSE IF outcome = "rejected" THEN "rejected"
                ELSE IF \A x \in shr.toAgents : sends[x] = "fulfilled" THEN "resolved"
                ELSE "pending",
         !.error = IF shr.pc = "pending" /\ outcome = "rejected" THEN r ELSE shr.error]

\* the INSERT of the send to r succeeds; the emits follow and may throw
ShareSendInsert ==
  /\ \E r \in shr.toAgents, outcome \in {"fulfilled", "rejected"} :
        /\ shr.sends[r] = "pending"
        /\ sendMessage([fromAgentId |-> "agent-131-vibe-coding", toAgentId |-> r,
                        messageType |-> "learning_share", taskId |-> 0,
                        payload |-> "learning", priority |-> LearningPriority])
        /\ shr' = promiseAll(r, outcome)
  /\ UNCHANGED <<hof, sendLog, unread, agentTasks, execVars, assignVars, selectVars,
                 routerVars, decVars, savingsVars, alertVars, deployVars>>

\* the INSERT of the send to r rejects: no row for r
ShareSendReject ==
  /\ \E r \in shr.toAgents :
        /\ shr.sends[r] = "pending"
        /\ shr' = promiseAll(r, "rejected")
  /\ UNCHANGED <<agentCollaboration, hof, sendLog, unread, agentTasks, execVars, assignVars,
                 selectVars, routerVars, decVars, savingsVars, alertVars, deployVars>>

\* an update that clears the flag instead
markAsUnread(messageId) ==
  agentCollaboration' =
    IF messageId \in 1..Len(agentCollaboration)
    THEN [agentCollaboration EXCEPT ![messageId].read = FALSE]
    ELSE agentCollaboration

\* db.update(agentCollaboration).set({ read: true }).where(id = messageId)
markAsRead(messageId) ==
  agentCollaboration' =
    IF messageId \in 1..Len(agentCollaboration)
    THEN [agentCollaboration EXCEPT ![messageId].read = TRUE]
    ELSE agentCollaboration

\* AgentMessenger.markAsRead(messageId), and the same UPDATE made by
\* PATCH /api/messages/:id/read -> storage.markMessageAsRead
MarkAsRead ==
  /\ \E messageId \in 1..MaxMessages : markAsRead(messageId)
  /\ UNCHANGED <<hof, sendLog, shr, unread, agentTasks, execVars, assignVars, selectVars,
                 routerVars, decVars, savingsVars, alertVars, deployVars>>

DefaultPriority == 5

\* POST /api/messages -> storage.sendAgentMessage: priority and read are
\* optional in the body (<<>> when absent) and then take the column default
SendAgentMessage ==
  /\ Len(agentCollaboration) < MaxMessages
  /\ \E priority \in {<<>>, <<7>>}, read \in {<<>>, <<TRUE>>} :
        agentCollaboration' = Append(agentCollaboration,
          [fromAgentId |-> "agent-131-vibe-coding", toAgentId |-> "agent-79-qa",
           messageType |-> "status_update", taskId |-> 0, payload |-> "status",
           priority |-> IF priority = <<>> THEN DefaultPriority ELSE priority[1],
           read |-> IF read = <<>> THEN FALSE ELSE read[1],
           createdAt |-> Len(agentCollaboration) + 1])
  /\ UNCHANGED <<hof, sendLog, shr, unread, agentTasks, execVars, assignVars, selectVars,
                 routerVars, decVars, savingsVars, alertVars, deployVars>>

InitMessenger == InitHandoff

NextMessenger ==
  \/ RequestHelp
  \/ ShareLearning
  \/ ShareSendInsert
  \/ ShareSendReject
  \/ MarkAsRead
  \/ SendAgentMessage

SpecMessenger == InitMessenger /\ [][NextMessenger]_vars

(***************************************************************************)
(* Reading an agent's messages: AgentMessenger.getUnreadMessages(agentId)  *)
(* and DatabaseStorage.getAgentMessages(agentId, unreadOnly) behind        *)
(* GET /api/messages/:agentId.                                             *)
(***************************************************************************)
\* the WHERE clause: eq(toAgentId, agentId), and eq(read, false) where the
\* query has that condition
messagesWhere(agentId, unreadOnly) ==
  {i \in 1..Len(agentCollaboration) :
     /\ agentCollaboration[i].toAgentId = agentId
     /\ unreadOnly => ~agentCollaboration[i].read}

\* .where(eq(agentCollaboration.toAgentId, agentId))
\*   .orderBy(agentCollaboration.priority): rows of equal priority come in
\* any order
GetUnreadMessages ==
  /\ \E agentId \in AgentIds :
       \E rows \in Orderings(messagesWhere(agentId, FALSE)) :
          /\ \A i, j \in DOMAIN rows :
                i < j => agentCollaboration[rows[i]].priority
                           <= agentCollaboration[rows[j]].priority
          /\ unread' = [call |-> "getUnreadMessages", agentId |-> agentId, rows |-> rows]
  /\ UNCHANGED <<agentCollaboration, hof, sendLog, shr, agentTasks, execVars, assignVars,
                 selectVars, routerVars, decVars, savingsVars, alertVars, deployVars>>

\* .where(conditions).orderBy(desc(priority), desc(createdAt))
GetAgentMessages ==
  /\ \E agentId \in AgentIds, unreadOnly \in BOOLEAN :
       \E rows \in Orderings(messagesWhere(agentId, unreadOnly)) :
          /\ \A i, j \in DOMAIN rows :
                i < j =>
                  \/ agentCollaboration[rows[i]].priority > agentCollaboration[rows[j]].priority
                  \/ /\ agentCollaboration[rows[i]].priority = agentCollaboration[rows[j]].priority
                     /\ agentCollaboration[rows[i]].createdAt > agentCollaboration[rows[j]].createdAt
          /\ unread' = [call |-> IF unreadOnly THEN "getAgentMessages(unreadOnly)"
                                 ELSE "getAgentMessages",
                        agentId |-> agentId, rows |-> rows]
  /\ UNCHANGED <<agentCollaboration, hof, sendLog, shr, agentTasks, execVars, assignVars,
                 selectVars, routerVars, decVars, savingsVars, alertVars, deployVars>>

InitInbox == InitMessenger

NextInbox ==
  \/ RequestHelp
  \/ SendAgentMessage
  \/ MarkAsRead
  \/ GetUnreadMessages
  \/ GetAgentMessages

SpecInbox == InitInbox /\ [][NextInbox]_vars

(***************************************************************************)
(* ModelRouter.selectModel(taskType, budget) over MODEL_REGISTRY.  Costs   *)
(* are in thousandths of a dollar, success rates in hundredths.            *)
(***************************************************************************)
MODEL_REGISTRY ==
  << [model |-> "gemini-flash", costPerRequest |-> 1,
      successRateByTask |-> [planning |-> 95, decomposition |-> 93, simple_code |-> 78]],
     [model |-> "gemini-pro", costPerRequest |-> 10,
      successRateByTask |-> [code_generation |-> 91, component_creation |-> 89,
                             api_endpoints |-> 87]],
     [model |-> "claude-sonnet", costPerRequest |-> 150,
      successRateByTask |-> [code_review |-> 95, architecture |-> 94,
                             complex_reasoning |-> 96]],
     [model |-> "gpt-4o", costPerRequest |-> 120,
      successRateByTask |-> [multimodal |-> 93, image_generation |-> 88]] >>

AIModels == {MODEL_REGISTRY[i].model : i \in DOMAIN MODEL_REGISTRY}

CapableThreshold == 75
BudgetThreshold == 50

\* the first element of q.sort(cmp), the sort being stable: the earliest
\* element that none strictly precedes
\* capable.sort((a, b) => a.costPerRequest - b.costPerRequest)[0]
cheapest(q) ==
  LET minimal == {i \in DOMAIN q :
                    \A j \in DOMAIN q : ~(q[j].costPerRequest < q[i].costPerRequest)}
  IN  q[CHOOSE i \in minimal : \A j \in minimal : i <= j]

\* the first of the capable models sorted by successRate / costPerRequest,
\* descending
bestRatio(q, taskType) ==
  LET precedes(a, b) ==
        a.successRateByTask[taskType] * b.costPerRequest
          > b.successRateByTask[taskType] * a.costPerRequest
      minimal == {i \in DOMAIN q : \A j \in DOMAIN q : ~precedes(q[j], q[i])}
  IN  q[CHOOSE i \in minimal : \A j \in minimal : i <= j]

\* m.successRateByTask[taskType] >= 0.75, false when the entry is undefined
isCapable(m, taskType) ==
  /\ taskType \in DOMAIN m.successRateByTask
  /\ m.successRateByTask[taskType] >= CapableThreshold

\* budget is <<>> (undefined) or <<number>>; in `budget && budget < 0.05`
\* undefined and 0 are falsy
budgetConstrained(budget) ==
  /\ budget # <<>>
  /\ budget[1] # 0
  /\ budget[1] < BudgetThreshold

selectModelFrom(registry, taskType, budget) ==
  LET capable == SelectSeq(registry, LAMBDA m : isCapable(m, taskType))
  IN  IF capable = <<>> THEN "claude-sonnet"
      ELSE IF budgetConstrained(budget) THEN cheapest(capable).model
      ELSE bestRatio(capable, taskType).model

selectModel(taskType, budget) == selectModelFrom(MODEL_REGISTRY, taskType, budget)

TaskTypes ==
  {"planning", "simple_code", "code_generation", "code_review", "multimodal",
   "unmapped"}
Budgets == {<<>>, <<0>>, <<10>>, <<100>>}

\* POST /api/ai/route-model
RouteModel ==
  /\ \E taskType \in TaskTypes, budget \in Budgets :
        routed' = {[taskType |-> taskType, budget |-> budget,
                    model |-> selectModel(taskType, budget)]}
  /\ UNCHANGED <<available, agentTasks, execVars, assignVars, msgVars, selectVars, decVars, savingsVars, alertVars, deployVars>>

InitRouter ==
  /\ agentTasks = <<>>
  /\ ExecAtRest /\ AssignAtRest /\ MessengerAtRest /\ SelectAtRest
  /\ DecomposeAtRest /\ SavingsAtRest /\ AlertAtRest /\ DeployAtRest
  /\ available \in SUBSET AIModels
  /\ routed = {}

NextRouter == RouteModel

SpecRouter == InitRouter /\ [][NextRouter]_vars

(***************************************************************************)
(* selectModel over model profiles whose success rates have been adjusted  *)
(* from recorded performance, so that several models qualify for one task  *)
(* type: gpt-4o has come to qualify for architecture, at 0.75.             *)
(***************************************************************************)
AdjustedRegistry ==
  [i \in DOMAIN MODEL_REGISTRY |->
     IF MODEL_REGISTRY[i].model = "gpt-4o"
     THEN [MODEL_REGISTRY[i] EXCEPT
             !.successRateByTask = [multimodal |-> 93, image_generation |-> 88,
                                    architecture |-> 75]]
     ELSE MODEL_REGISTRY[i]]

ModelProfiles == {MODEL_REGISTRY, AdjustedRegistry}

ProfileTaskTypes == TaskTypes \cup {"architecture"}
ProfileBudgets == Budgets \cup {<<49>>, <<50>>}

RouteModelOver ==
  /\ \E registry \in ModelProfiles, taskType \in ProfileTaskTypes,
        budget \in ProfileBudgets :
        routed' = {[taskType |-> taskType, budget |-> budget, registry |-> registry,
                    model |-> selectModelFrom(registry, taskType, budget)]}
  /\ UNCHANGED <<available, agentTasks, execVars, assignVars, msgVars, selectVars, decVars, savingsVars, alertVars, deployVars>>

InitProfiles == InitRouter

NextProfiles == RouteModelOver

SpecProfiles == InitProfiles /\ [][NextProfiles]_vars

(***************************************************************************)
(* MetricsCollector.calculateCostSavings over the metrics that             *)
(* collectAIMetrics returns: the number of recorded requests and the sum   *)
(* of their costs (in thousandths of a dollar).  A quotient is kept as     *)
(* numerator over denominator; a division by zero gives NaN or an          *)
(* infinity, as in IEEE arithmetic.                                        *)
(***************************************************************************)
BaselineCostPerRequest == 150

divide(n, d) ==
  IF d # 0 THEN [kind |-> "number", num |-> n, den |-> d]
  ELSE [kind |-> IF n = 0 THEN "NaN" ELSE IF n > 0 THEN "Infinity" ELSE "-Infinity",
        num |-> 0, den |-> 1]

calculateCostSavings(metrics) ==
  LET actualCost == metrics.totalCost
      baselineCost == metrics.totalRequests * BaselineCostPerRequest
  IN  [savingsPercent |-> divide((baselineCost - actualCost) * 100, baselineCost),
       actualCost |-> actualCost,
       baselineCost |-> baselineCost]

costOf(model) ==
  LET i == CHOOSE k \in DOMAIN MODEL_REGISTRY : MODEL_REGISTRY[k].model = model
  IN  MODEL_REGISTRY[i].costPerRequest

\* ModelRouter.recordUsage: one more request, at the cost of its model
RecordUsage ==
  /\ aiMetrics.totalRequests < MaxUsage
  /\ \E model \in AIModels :
        aiMetrics' = [totalRequests |-> aiMetrics.totalRequests + 1,
                      totalCost |-> aiMetrics.totalCost + costOf(model)]
  /\ UNCHANGED <<savings, agentTasks, execVars, assignVars, msgVars, selectVars,
                 routerVars, decVars, alertVars, deployVars>>

CalculateCostSavings ==
  /\ savings' = <<calculateCostSavings(aiMetrics)>>
  /\ UNCHANGED <<aiMetrics, agentTasks, execVars, assignVars, msgVars, selectVars,
                 routerVars, decVars, alertVars, deployVars>>

InitSavings ==
  /\ agentTasks = <<>>
  /\ ExecAtRest /\ AssignAtRest /\ MessengerAtRest /\ RouterAtRest /\ SelectAtRest
  /\ DecomposeAtRest /\ SavingsAtRest /\ AlertAtRest /\ DeployAtRest

NextSavings == RecordUsage \/ CalculateCostSavings

SpecSavings == InitSavings /\ [][NextSavings]_vars

(***************************************************************************)
(* Routing and usage together: POST /api/ai/route-model calls selectModel, *)
(* recordUsage is a method of its own that a caller has to invoke, and     *)
(* GET /api/ai/cost-savings reads the recorded usage.                      *)
(***************************************************************************)
InitUsage == InitSavings

NextUsage == RouteModel \/ RecordUsage \/ CalculateCostSavings

SpecUsage == InitUsage /\ [][NextUsage]_vars

(***************************************************************************)
(* AlertManager.checkRules, called every intervalMs by the timer of        *)
(* startMonitoring whether or not the run before it has returned.  A run   *)
(* is split at its only await, the rule's condition(); the cooldown test,  *)
(* createAlert and the update of lastAlertTime follow it synchronously.    *)
(* Two of the default rules are kept, in the order they are added;         *)
(* cooldownMs is in minutes (5 * 60 * 1000 ms and 1 * 60 * 1000 ms).       *)
(***************************************************************************)
MaxTicks == 5
MaxAlerts == 8

Rules ==
  << [id |-> "high-error-rate", severity |-> "critical", cooldownMs |-> 5],
     [id |-> "database-down", severity |-> "critical", cooldownMs |-> 1] >>

RuleIds == {Rules[i].id : i \in DOMAIN Rules}

\* a test that lets every alert through
cooldownIgnored(rule) == TRUE

\* const lastAlertTime = this.lastAlertTime.get(ruleId) || 0;
\* timeSinceLastAlert = Date.now() - lastAlertTime; timeSinceLastAlert >= rule.cooldownMs
cooldownElapsed(rule) ==
  LET last == IF rule.id \in DOMAIN lastAlertTime THEN lastAlertTime[rule.id] ELSE 0
  IN  now - last >= rule.cooldownMs

createAlert(rule) ==
  [source |-> rule.id, severity |-> rule.severity, status |-> "active", timestamp |-> now]

\* time passes
Tick ==
  /\ now < StartTime + MaxTicks
  /\ now' = now + 1
  /\ UNCHANGED <<alerts, lastAlertTime, chk, agentTasks, execVars, assignVars, msgVars,
                 selectVars, routerVars, decVars, savingsVars, deployVars>>

\* the timer fires; the second run starts while the first is in flight
CheckRulesStart(r) ==
  /\ chk[r].pc = "idle"
  /\ r = 2 => chk[1].pc = "await"
  /\ chk' = [chk EXCEPT ![r] = [chkIdle EXCEPT !.pc = "await", !.i = 1]]
  /\ UNCHANGED <<alerts, lastAlertTime, now, agentTasks, execVars, assignVars, msgVars,
                 selectVars, routerVars, decVars, savingsVars, deployVars>>

\* the condition of rule i settles: true, false, or a rejection that the
\* catch of the loop body logs; the loop goes on to the next rule
ConditionSettles(r) ==
  /\ chk[r].pc = "await"
  /\ \E outcome \in {"true", "false", "throws"} :
       LET rule == Rules[chk[r].i]
           fire == outcome = "true" /\ cooldownElapsed(rule)
       IN  /\ fire => Len(alerts) < MaxAlerts
           /\ alerts' = IF fire THEN Append(alerts, createAlert(rule)) ELSE alerts
           /\ lastAlertTime' =
                 IF fire
                 THEN [id \in DOMAIN lastAlertTime \cup {rule.id} |->
                         IF id = rule.id THEN now ELSE lastAlertTime[id]]
                 ELSE lastAlertTime
           /\ chk' = [chk EXCEPT
                 ![r].pc = IF chk[r].i = Len(Rules) THEN "done" ELSE "await",
                 ![r].i = IF chk[r].i = Len(Rules) THEN @ ELSE @ + 1,
                 ![r].checked = @ \cup {rule.id},
                 ![r].threw = IF outcome = "throws" THEN @ \cup {rule.id} ELSE @,
                 ![r].newAlerts = IF fire THEN @ \cup {rule.id} ELSE @]
  /\ UNCHANGED <<now, agentTasks, execVars, assignVars, msgVars,
                 selectVars, routerVars, decVars, savingsVars, deployVars>>

\* return newAlerts
CheckRulesReturn(r) ==
  /\ chk[r].pc = "done"
  /\ chk' = [chk EXCEPT ![r] = chkIdle]
  /\ UNCHANGED <<alerts, lastAlertTime, now, agentTasks, execVars, assignVars, msgVars,
                 selectVars, routerVars, decVars, savingsVars, deployVars>>

InitAlerts == InitSavings

NextAlerts ==
  \/ Tick
  \/ \E r \in Checkers : CheckRulesStart(r)
  \/ \E r \in Checkers : ConditionSettles(r)
  \/ \E r \in Checkers : CheckRulesReturn(r)

SpecAlerts == InitAlerts /\ [][NextAlerts]_vars

(***************************************************************************)
(* DeploymentAutomation.deploy(version), behind                            *)
(* POST /api/deployment/automation/deploy, split at its awaits: the        *)
(* pre-flight checks, the staging deployment, each health check of the     *)
(* monitoring loop, the production rollout, the validation, the            *)
(* notification, and in the catch block the rollback.                      *)
(***************************************************************************)
MaxDeployments == 2
MaxMonitorChecks == 2

Versions == {"1.0.0", "1.1.0"}
HealthStatuses == {"healthy", "degraded", "unhealthy"}

\* catch (error): phases.push(createProgress('failed', ...)); the rollback follows
failDeployment(d, errorMessage) ==
  [d EXCEPT !.phases = Append(@, "failed"), !.error = errorMessage, !.pc = "rollback"]

DeployStart ==
  /\ dpl.pc = "idle"
  /\ deployments < MaxDeployments
  /\ \E version \in Versions :
        dpl' = [dplIdle EXCEPT !.pc = "pre-check", !.version = version,
                               !.phases = <<"pre-check">>]
  /\ deployments' = deployments + 1
  /\ UNCHANGED <<agentTasks, execVars, assignVars, msgVars, selectVars, routerVars,
                 decVars, savingsVars, alertVars>>

\* readiness = await deploymentSafety.runPreFlightChecks(); if (!readiness.ready) throw
DeployPreFlight ==
  /\ dpl.pc = "pre-check"
  /\ \E ready \in BOOLEAN :
        dpl' = IF ready
               THEN [dpl EXCEPT !.readiness = "ready", !.phases = Append(@, "deploy"),
                                !.pc = "staging"]
               ELSE failDeployment([dpl EXCEPT !.readiness = "not ready"],
                                   "Pre-flight checks failed")
  /\ UNCHANGED <<deployments, agentTasks, execVars, assignVars, msgVars, selectVars,
                 routerVars, decVars, savingsVars, alertVars>>

DeployToStaging ==
  /\ dpl.pc = "staging"
  /\ dpl' = [dpl EXCEPT !.staged = TRUE, !.phases = Append(@, "monitor"), !.pc = "monitor"]
  /\ UNCHANGED <<deployments, agentTasks, execVars, assignVars, msgVars, selectVars,
                 routerVars, decVars, savingsVars, alertVars>>

\* a monitoring that lets every status pass
monitorNeverFails(status) == FALSE

\* if (health.status === 'unhealthy') throw new Error('Health checks failing during deployment')
monitorFails(status) == status = "unhealthy"

\* one turn of the loop of monitorDeployment: a health check, then the sleep
DeployMonitorCheck ==
  /\ dpl.pc = "monitor"
  /\ Len(dpl.monitored) < MaxMonitorChecks
  /\ \E status \in HealthStatuses :
        dpl' = IF monitorFails(status)
               THEN failDeployment([dpl EXCEPT !.monitored = Append(@, status)],
                                   "Health checks failing during deployment")
               ELSE [dpl EXCEPT !.monitored = Append(@, status)]
  /\ UNCHANGED <<deployments, agentTasks, execVars, assignVars, msgVars, selectVars,
                 routerVars, decVars, savingsVars, alertVars>>

\* Date.now() has reached endTime: the loop, entered at least once, ends
DeployMonitorEnd ==
  /\ dpl.pc = "monitor"
  /\ Len(dpl.monitored) >= 1
  /\ dpl' = [dpl EXCEPT !.phases = Append(@, "deploy"), !.pc = "rollout"]
  /\ UNCHANGED <<deployments, agentTasks, execVars, assignVars, msgVars, selectVars,
                 routerVars, decVars, savingsVars, alertVars>>

DeployRollout ==
  /\ dpl.pc = "rollout"
  /\ dpl' = [dpl EXCEPT !.rolledOut = TRUE, !.phases = Append(@, "validate"),
                        !.pc = "validate"]
  /\ UNCHANGED <<deployments, agentTasks, execVars, assignVars, msgVars, selectVars,
                 routerVars, decVars, savingsVars, alertVars>>

\* if (health.status !== 'healthy') throw new Error('Post-deployment validation failed')
DeployValidate ==
  /\ dpl.pc = "validate"
  /\ \E status \in HealthStatuses :
        dpl' = IF status # "healthy"
               THEN failDeployment([dpl EXCEPT !.validated = status],
                                   "Post-deployment validation failed")
               ELSE [dpl EXCEPT !.validated = status, !.phases = Append(@, "complete"),
                                !.pc = "notify"]
  /\ UNCHANGED <<deployments, agentTasks, execVars, assignVars, msgVars, selectVars,
                 routerVars, decVars, savingsVars, alertVars>>

\* notificationService.broadcastToAll stores the notifications in memory and
\* returns; the result has no rollback field (<<>>)
DeployNotify ==
  /\ dpl.pc = "notify"
  /\ dpl' = [dpl EXCEPT !.pc = "done",
                        !.result = <<[success |-> TRUE, version |-> dpl.version,
                                      phases |-> dpl.phases, rollback |-> <<>>]>>]
  /\ UNCHANGED <<deployments, agentTasks, execVars, assignVars, msgVars, selectVars,
                 routerVars, decVars, savingsVars, alertVars>>

\* await rollbackCoordinator.manualRollback(...), then the result is returned
DeployRollback ==
  /\ dpl.pc = "rollback"
  /\ dpl' = [dpl EXCEPT !.pc = "done", !.rollbacks = @ + 1,
                        !.result = <<[success |-> FALSE, version |-> dpl.version,
                                      phases |-> dpl.phases,
                                      rollback |-> <<[triggered |-> TRUE,
                                                      reason |-> dpl.error]>>]>>]
  /\ UNCHANGED <<deployments, agentTasks, execVars, assignVars, msgVars, selectVars,
                 routerVars, decVars, savingsVars, alertVars>>

\* res.json(result)
DeployReturn ==
  /\ dpl.pc = "done"
  /\ dpl' = dplIdle
  /\ UNCHANGED <<deployments, agentTasks, execVars, assignVars, msgVars, selectVars,
                 routerVars, decVars, savingsVars, alertVars>>

InitDeploy == InitSavings

NextDeploy ==
  \/ DeployStart
  \/ DeployPreFlight
  \/ DeployToStaging
  \/ DeployMonitorCheck
  \/ DeployMonitorEnd
  \/ DeployRollout
  \/ DeployValidate
  \/ DeployNotify
  \/ DeployRollback
  \/ DeployReturn

SpecDeploy == InitDeploy /\ [][NextDeploy]_vars

(***************************************************************************)
(* Agent selection on its own: any pool of one to MaxPool distinct agents, *)
(* in any order, and any task.                                             *)
(***************************************************************************)
Pools ==
  {p \in UNION {[1..n -> AgentCapability] : n \in 1..MaxPool} :
     /\ \A i \in 1..Len(p) : p[i].isActive
     /\ \A i, j \in 1..Len(p) : i # j => p[i].agentId # p[j].agentId}

InitSelect ==
  /\ agentTasks = <<>>
  /\ ExecAtRest
  /\ AssignAtRest
  /\ MessengerAtRest
  /\ RouterAtRest
  /\ DecomposeAtRest /\ SavingsAtRest /\ AlertAtRest /\ DeployAtRest
  /\ pool \in Pools
  /\ subTask \in [requiredSpecialties : RequiredArrays]
  /\ selected = <<>>

CallSelectBestAgent ==
  /\ selected = <<>>
  /\ pool # <<>>
  /\ selected' = <<selectBestAgent(pool, subTask)>>
  /\ UNCHANGED <<pool, subTask, agentTasks, execVars, assignVars, msgVars, routerVars, decVars, savingsVars, alertVars, deployVars>>

NextSelect == CallSelectBestAgent

SpecSelect == InitSelect /\ [][NextSelect]_vars

(***************************************************************************)
(* Dependency graphs.                                                      *)
(***************************************************************************)
RECURSIVE closure(_, _, _)
closure(graph, S, n) ==
  IF n = 0 THEN S
  ELSE closure(graph,
               S \cup UNION {graph[t].dependencies \cap DOMAIN graph : t \in S},
               n - 1)

\* the tasks of the graph that t depends on, directly or transitively
TransitiveDependencies(graph, t) ==
  closure(graph, graph[t].dependencies \cap DOMAIN graph, Cardinality(DOMAIN graph))

Cyclic(graph) == \E t \in DOMAIN graph : t \in TransitiveDependencies(graph, t)

Dispatched == {e.task : e \in dispatchLog}

\* the build as Execute is meant to find it: every task assigned, every
\* dependency a task of the build
AssignedBuild(graph) ==
  \A t \in DOMAIN graph :
     graph[t].status = "assigned" /\ graph[t].dependencies \subseteq DOMAIN graph

(***************************************************************************)
(* Properties.                                                             *)
(***************************************************************************)

\* C1: whenever executeParallel marks a task in_progress, every task of its
\* dependency set already has status completed.
C1_DependenciesCompletedBeforeStart ==
  \A e \in dispatchLog : e.depsCompleted

\* C2: no assignment (assignTasks, assignTaskToAgent) leaves a worker with
\* currentLoad above its maxLoad.
C2_LoadNeverExceedsMaxLoad ==
  \A a \in DOMAIN agentCapabilities :
     agentCapabilities[a].currentLoad <= agentCapabilities[a].maxLoad

\* C3: two concurrent assignTasks calls that both read the same worker at
\* currentLoad = maxLoad - 1 and both chose it do not take it above maxLoad.
C3_ConcurrentAssignmentsRespectMaxLoad ==
  \A p, q \in Assigners :
     ( /\ p # q
       /\ asg[p].pc = "done" /\ asg[q].pc = "done"
       /\ asg[p].bestAgent[1].agentId = asg[q].bestAgent[1].agentId
       /\ asg[p].bestAgent[1].currentLoad = asg[p].bestAgent[1].maxLoad - 1
       /\ asg[q].bestAgent[1].currentLoad = asg[q].bestAgent[1].maxLoad - 1 )
     => agentCapabilities[asg[p].bestAgent[1].agentId].currentLoad
          <= agentCapabilities[asg[p].bestAgent[1].agentId].maxLoad

\* C4: executeParallel on a build whose dependency graph has a cycle ends
\* with CyclicDependencyError and has marked no task in_progress.
C4_CyclicGraphRejected ==
  (exe.pc = "done" /\ Cyclic(exe.graph))
    => (exe.error = "CyclicDependencyError" /\ Dispatched = {})

\* C5: when executeParallel ends, every task with a failed task among its
\* direct or transitive dependencies was never dispatched and is blocked.
C5_FailedTaskBlocksDependents ==
  (exe.pc = "done" /\ AssignedBuild(exe.graph)) =>
    \A t \in DOMAIN exe.graph :
       (\E d \in TransitiveDependencies(exe.graph, t) : agentTasks[d].status = "failed")
         => (t \notin Dispatched /\ agentTasks[t].status = "blocked")

\* C6: when executeParallel ends on an acyclic build, every task of the
\* build is completed, failed or blocked.
C6_ExecuteEndsWithEveryTaskResolved ==
  (exe.pc = "done" /\ AssignedBuild(exe.graph) /\ ~Cyclic(exe.graph)) =>
    \A t \in DOMAIN exe.graph :
       agentTasks[t].status \in {"completed", "failed", "blocked"}

\* the build of assignTasks call p: buildId is String(mainTaskId)
buildOf(p) == IF asg[p].mainTaskId = 1 THEN "1" ELSE "2"

\* C11: after assignTasks and an executeParallel of its build in which every
\* task ended completed or failed, and with no other assignment made, each
\* worker's currentLoad is what it was before the build was assigned.
C11_LoadRestoredAfterBuild ==
  \A p \in Assigners :
     ( /\ asg[p].pc = "done"
       /\ \A q \in Assigners \ {p} : asg[q].pc = "idle"
       /\ exe.pc = "done" /\ exe.buildId = buildOf(p) /\ exe.graph # <<>>
       /\ \A t \in DOMAIN exe.graph : agentTasks[t].status \in {"completed", "failed"} )
     => \A a \in DOMAIN agentCapabilities :
           agentCapabilities[a].currentLoad = asg[p].loadBefore[a]

\* a dependency of the response names a sub-task the response does not have
unresolvedReference(d) ==
  \E e \in d.dependencies :
     \E n \in {e.taskId} \cup e.dependsOn :
        \A i \in 1..Len(d.subTasks) : d.subTasks[i].id # n

\* C12: decompose fails and has persisted no row when the model call threw,
\* the content was not JSON or a dependency reference does not resolve.
C12_NoPartialDecomposition ==
  ( /\ dec.pc \in {"done", "failed"}
    /\ \/ dec.response.kind \in {"throws", "unparsable"}
       \/ unresolvedReference(dec.response.decomposition) )
  => (dec.pc = "failed" /\ dec.mainTaskId = 0 /\ agentTasks = <<>>)

\* the persisted ids of the sub-tasks that sub-task i of call p depends on
expectedDependencies(p, i) ==
  LET d == asg[p].decomposition
      names == UNION {e.dependsOn : e \in {x \in d.dependencies : x.taskId = d.subTasks[i].id}}
  IN  {asg[p].assignments[j].taskId :
         j \in {k \in 1..Len(d.subTasks) : d.subTasks[k].id \in names}}

\* C13: when assignTasks has ended, the dependencies stored on each persisted
\* task are the persisted ids of the sub-tasks named in its dependsOn list.
C13_DependencyEdgesKept ==
  \A p \in Assigners :
     asg[p].pc = "done" =>
       \A i \in 1..Len(asg[p].assignments) :
          agentTasks[asg[p].assignments[i].taskId].dependencies
            = expectedDependencies(p, i)

\* the wave in which task t was dispatched
waveOf(t) == (CHOOSE e \in dispatchLog : e.task = t).wave

MaxOf(S) == CHOOSE x \in S : \A y \in S : y <= x

\* C14: a task is dispatched once, in wave 1 when its dependency set is
\* empty and otherwise in the wave after the last of its dependencies; when
\* executeParallel ends on an acyclic build of assigned tasks, every task was
\* dispatched.
C14_WaveIsOnePlusLastDependency ==
  /\ \A e \in dispatchLog :
       LET deps == agentTasks[e.task].dependencies
       IN  /\ \A f \in dispatchLog : f.task = e.task => f.wave = e.wave
           /\ deps \subseteq Dispatched
           /\ e.wave = IF deps = {} THEN 1 ELSE 1 + MaxOf({waveOf(d) : d \in deps})
  /\ (exe.pc = "done" /\ AssignedBuild(exe.graph) /\ ~Cyclic(exe.graph))
       => Dispatched = DOMAIN exe.graph

\* a chain of three tasks that ran as three waves of one task each
C14_Witness ==
  /\ exe.pc = "done"
  /\ \E a, b, c \in DOMAIN exe.graph :
        /\ exe.graph[a].dependencies = {}
        /\ exe.graph[b].dependencies = {a}
        /\ exe.graph[c].dependencies = {b}
        /\ Dispatched = {a, b, c}
        /\ waveOf(a) = 1 /\ waveOf(b) = 2 /\ waveOf(c) = 3

\* C15: no task becomes in_progress while a task dispatched in an earlier
\* wave of the same executeParallel call has not yet reached completed or
\* failed.
C15_WaveBarrier ==
  [][\A t \in 1..Len(agentTasks) :
       ( /\ exe.pc = "wave"
         /\ agentTasks[t].status # "in_progress"
         /\ agentTasks'[t].status = "in_progress" )
       => \A e \in dispatchLog :
             e.wave < exe.wave => agentTasks[e.task].status \in {"completed", "failed"}]_vars

\* the cost of the single most expensive model
mostExpensive == MaxOf({MODEL_REGISTRY[i].costPerRequest : i \in DOMAIN MODEL_REGISTRY})

cheapestAvailable ==
  cheapest(SelectSeq(MODEL_REGISTRY, LAMBDA m : m.model \in available)).model

\* C17: when some model is available and no available model is capable of
\* the task type, selectModel returns the cheapest available model.
C17_FallbackIsCheapestAvailable ==
  \A r \in routed :
     ( /\ available # {}
       /\ \A i \in DOMAIN MODEL_REGISTRY :
             MODEL_REGISTRY[i].model \in available
               => ~isCapable(MODEL_REGISTRY[i], r.taskType) )
     => r.model = cheapestAvailable

\* C18: when no model is available, selectModel returns no model.
C18_NoModelAvailableError ==
  available = {} => routed = {}

activeAgents == {a \in DOMAIN agentCapabilities : agentCapabilities[a].isActive}

\* no active worker matches the sub-task that call p is assigning
noEligibleWorker(p) ==
  \A a \in activeAgents : ~matchesSpecialty(agentCapabilities[a], Head(asg[p].subTasks))

\* C19 as stated: with no eligible worker the task goes to the designated
\* general-purpose worker, and the assignment fails only when that worker is
\* unavailable.
C19_FallbackToDesignatedWorker ==
  \A p \in Assigners :
     /\ (asg[p].pc \in {"insert", "update"} /\ noEligibleWorker(p))
          => asg[p].bestAgent[1].agentId = "agent-131-vibe-coding"
     /\ asg[p].pc = "failed" => "agent-131-vibe-coding" \notin activeAgents

\* C19 amended: with no eligible worker the task goes to the designated
\* worker if it is active and otherwise to an active worker (the first the
\* query returned); the assignment fails only when no worker is active, and
\* the worker chosen for a task is always an active worker.
C19_FallbackToDesignatedOrFirstActive ==
  \A p \in Assigners :
     /\ (asg[p].pc \in {"insert", "update"} /\ noEligibleWorker(p))
          => /\ "agent-131-vibe-coding" \in activeAgents
                  => asg[p].bestAgent[1].agentId = "agent-131-vibe-coding"
             /\ asg[p].bestAgent[1].agentId \in activeAgents
     /\ asg[p].pc \in {"insert", "update"} => asg[p].bestAgent[1].agentId \in activeAgents
     /\ asg[p].pc = "failed" => activeAgents = {}
     /\ (asg[p].pc \in {"insert", "update"} \/ asg[p].assignments # <<>>) => activeAgents # {}

\* no worker is eligible, the designated worker is inactive, and the task
\* went to another active worker
C19_Witness ==
  \E p \in Assigners :
     /\ asg[p].pc = "update"
     /\ noEligibleWorker(p)
     /\ "agent-131-vibe-coding" \notin activeAgents
     /\ asg[p].bestAgent[1].agentId \in activeAgents

\* C20: a sendMessage whose broadcast or urgent notification failed has
\* still persisted its message and returned the id, and the reassignment of
\* the handoff that sent it has taken place.
C20_BroadcastFailureIsSoft ==
  \A s \in sendLog :
     s.broadcast = "failed" =>
       /\ s.messageId \in 1..Len(agentCollaboration)
       /\ s.returned
       /\ s.reassigned

\* the learning_share rows addressed to r
learningSharesTo(r) ==
  {i \in 1..Len(agentCollaboration) :
     /\ agentCollaboration[i].messageType = "learning_share"
     /\ agentCollaboration[i].toAgentId = r}

\* C21: every recipient of shareLearning whose own send succeeded has exactly
\* one learning_share message, whatever happened to the sends to the other
\* recipients, and the operation has not failed on its behalf.
C21_ShareLearningIndependent ==
  \A r \in shr.toAgents :
     shr.sends[r] = "fulfilled" =>
       /\ Cardinality(learningSharesTo(r)) = 1
       /\ shr.pc # "rejected"

\* C22: no step removes a message or changes its sender, recipient, kind,
\* payload, priority or timestamp; a step changes at most the read flag, and
\* only from false to true.
C22_MessagesAppendOnly ==
  [][/\ Len(agentCollaboration') >= Len(agentCollaboration)
     /\ \A i \in 1..Len(agentCollaboration) :
          /\ [agentCollaboration'[i] EXCEPT !.read = FALSE]
               = [agentCollaboration[i] EXCEPT !.read = FALSE]
          /\ agentCollaboration[i].read => agentCollaboration'[i].read]_vars

\* two messages, the first of them marked read after the second was sent
C22_Witness ==
  /\ Len(agentCollaboration) = 2
  /\ agentCollaboration[1].read
  /\ agentCollaboration[1].messageType = "request_help"
  /\ ~agentCollaboration[2].read

\* C25: each requestHelp step adds exactly one message, of kind
\* request_help, whose priority is 4 for urgency low, 6 for medium, 8 for
\* high and 10 for critical, and leaves the other messages as they were.
C25_HelpPriorityFromUrgency ==
  [][(\E i \in 1..Len(agentCollaboration') :
        i > Len(agentCollaboration) /\ agentCollaboration'[i].messageType = "request_help")
      => /\ Len(agentCollaboration') = Len(agentCollaboration) + 1
         /\ SubSeq(agentCollaboration', 1, Len(agentCollaboration)) = agentCollaboration
         /\ LET m == agentCollaboration'[Len(agentCollaboration')]
            IN  /\ m.payload \in Urgencies
                /\ m.payload = "low" => m.priority = 4
                /\ m.payload = "medium" => m.priority = 6
                /\ m.payload = "high" => m.priority = 8
                /\ m.payload = "critical" => m.priority = 10]_vars

\* a help request of urgency high and one of urgency critical were sent
C25_Witness ==
  /\ Len(agentCollaboration) = 2
  /\ agentCollaboration[1].messageType = "request_help"
  /\ agentCollaboration[1].payload = "high" /\ agentCollaboration[1].priority = 8
  /\ agentCollaboration[2].messageType = "request_help"
  /\ agentCollaboration[2].payload = "critical" /\ agentCollaboration[2].priority = 10

\* the task rows of build b
rowsOfBuild(b) == {i \in 1..Len(agentTasks) : agentTasks[i].buildId = b}

\* the build ids given to the rows of this run: decompose's own and the one
\* assignTasks derives from mainTaskId
pipelineBuilds == {"build-now", "1"}

\* C23: once decompose has returned sub-tasks, one build id carries exactly one row
\* per sub-task of the response, every one of them pending; at no time does
\* a build hold only some of its rows, and no step removes a row.
C23_BuildTasksCreatedAtomically ==
  (dec.pc = "done" /\ dec.response.decomposition.subTasks # <<>>) =>
    LET n == Len(dec.response.decomposition.subTasks)
        rows == UNION {rowsOfBuild(b) : b \in pipelineBuilds}
    IN  /\ \E b \in pipelineBuilds : Cardinality(rowsOfBuild(b)) = n /\ rows = rowsOfBuild(b)
        /\ \A i \in rows : agentTasks[i].status = "pending"

\* C24: every worker's currentLoad is at least 0.
C24_LoadNeverNegative ==
  \A a \in DOMAIN agentCapabilities : agentCapabilities[a].currentLoad >= 0

\* the models of registry that are available and qualify for taskType
qualifying(registry, taskType) ==
  SelectSeq(registry, LAMBDA m : m.model \in available /\ isCapable(m, taskType))

maximizesRatio(m, q, taskType) ==
  \A i \in DOMAIN q :
     m.successRateByTask[taskType] * q[i].costPerRequest
       >= q[i].successRateByTask[taskType] * m.costPerRequest

C28_UsageRecordedPerCall ==
  [][/\ routed' # routed <=> aiMetrics'.totalRequests = aiMetrics.totalRequests + 1
     /\ routed' = routed => aiMetrics' = aiMetrics]_vars

\* C29: the worker chosen for a sub-task is at full load only when every
\* candidate the query returned is, and a worker whose load an assignment
\* raised is not above its maxLoad.
C29_FullWorkerNotChosen ==
  \A p \in Assigners :
     /\ asg[p].pc \in {"insert", "update"} =>
          ( asg[p].bestAgent[1].currentLoad >= asg[p].bestAgent[1].maxLoad
              => \A a \in activeAgents :
                    agentCapabilities[a].currentLoad >= agentCapabilities[a].maxLoad )
     /\ asg[p].pc \in {"read", "done"} =>
          \A a \in DOMAIN agentCapabilities :
             agentCapabilities[a].currentLoad > asg[p].loadBefore[a]
               => agentCapabilities[a].currentLoad <= agentCapabilities[a].maxLoad

\* the build under execution has been stopped: tasks have been dispatched
\* and none of its tasks is left in status assigned
Stopped ==
  /\ exe.pc = "wave"
  /\ dispatchLog # {}
  /\ \A t \in DOMAIN exe.graph : agentTasks[t].status # "assigned"

\* C30: once the build is stopped and the current wave has been dispatched,
\* executeParallel starts no further wave.
C30_NoWaveAfterStop ==
  [][(Stopped /\ exe.marked = exe.readyTasks) => exe'.wave = exe.wave]_vars

C32_OnlyAssignedDispatched ==
  /\ \A e \in dispatchLog : e.from = "assigned"
  /\ (exe.pc # "idle" /\ \A t \in DOMAIN exe.graph : exe.graph[t].status = "pending")
       => (exe.pc = "done" /\ dispatchLog = {})

\* C33: what getUnreadMessages(agent) returns is exactly the messages
\* addressed to the agent whose read flag is false, so a message marked read
\* is not in it.
C33_UnreadMessagesOnly ==
  [][(unread' # unread /\ unread'.call = "getUnreadMessages") =>
       {unread'.rows[i] : i \in DOMAIN unread'.rows}
         = {m \in 1..Len(agentCollaboration) :
              /\ agentCollaboration[m].toAgentId = unread'.agentId
              /\ ~agentCollaboration[m].read}]_vars

\* the number of tasks the finished call p gave to agent a
assignedTo(p, a) ==
  Cardinality({i \in 1..Len(asg[p].assignments) : asg[p].assignments[i].agentId = a})

\* C34: when a batch of tasks requiring the same specialty has been
\* assigned over three matching agents of equal successRate with room for
\* the whole batch, no agent has received more than 40% of the batch.
C34_BatchSpreadOverAgents ==
  (asg[1].pc = "done" /\ Len(asg[1].assignments) = BatchSize) =>
    \A a \in AgentIds : assignedTo(1, a) * 100 <= 40 * BatchSize

\* the tasks that count toward the load of agent a
activeTasksOf(a) ==
  {i \in 1..Len(agentTasks) :
     /\ agentTasks[i].assignedAgent = a
     /\ agentTasks[i].status \in {"assigned", "in_progress"}}

\* no assignment and no handoff is under way
Quiescent ==
  /\ \A p \in Assigners : asg[p].pc \in {"idle", "done", "failed"}
  /\ ata.pc \in {"idle", "done"}
  /\ hof.pc = "idle"

\* C35: between operations, each worker's currentLoad is the number of
\* assigned or in_progress tasks assigned to it, so a handoff has moved one
\* unit of load from the sender to the receiver.
C35_LoadCountsActiveTasks ==
  Quiescent =>
    \A a \in DOMAIN agentCapabilities :
       agentCapabilities[a].currentLoad = Cardinality(activeTasksOf(a))

cooldownOf(id) == (CHOOSE i \in DOMAIN Rules : Rules[i].id = id)

\* C38: two alerts created for one rule are at least the rule's cooldownMs
\* apart; a run that has gone through the rules has checked every rule, and
\* returns no alert for a rule whose condition threw.
C38_AlertsRespectCooldown ==
  /\ \A i, j \in DOMAIN alerts :
       (i < j /\ alerts[i].source = alerts[j].source) =>
          alerts[j].timestamp - alerts[i].timestamp
            >= Rules[cooldownOf(alerts[i].source)].cooldownMs
  /\ \A r \in Checkers :
       /\ chk[r].threw \cap chk[r].newAlerts = {}
       /\ chk[r].pc = "done" => chk[r].checked = RuleIds

\* two runs overlap; the one that has returned to its caller's hands saw the
\* first rule throw and still raised the second; the second rule has two
\* alerts exactly its cooldown apart
C38_Witness ==
  /\ chk[1].pc = "done" /\ chk[2].pc = "await"
  /\ chk[1].threw = {"high-error-rate"} /\ chk[1].newAlerts = {"database-down"}
  /\ \E i, j \in DOMAIN alerts :
        /\ i < j
        /\ alerts[i].source = "database-down" /\ alerts[j].source = "database-down"
        /\ alerts[j].timestamp - alerts[i].timestamp = 1

\* what the deploy call in flight was given makes one of its phases fail
preFlightFailed == dpl.readiness = "not ready"
monitoringFailed == \E i \in DOMAIN dpl.monitored : dpl.monitored[i] = "unhealthy"
validationFailed == dpl.validated \in {"degraded", "unhealthy"}
phaseFailed == preFlightFailed \/ monitoringFailed \/ validationFailed

\* C39: deploy makes at most one rollback, and only after a phase failed.
\* Its result after a failed pre-flight check, an unhealthy status during
\* monitoring or a failed validation has success = false, ends with phase
\* failed after the phases up to the failing one, and reports the one
\* rollback; no production rollout ran unless it was the validation that
\* failed.  Its result when no phase failed has success = true, the six
\* phases ending with complete, and no rollback.
C39_RollbackExactlyOnFailure ==
  /\ dpl.rollbacks <= 1
  /\ dpl.rollbacks = 1 => phaseFailed
  /\ dpl.pc = "done" =>
       LET result == dpl.result[1]
       IN  /\ result.success <=> ~phaseFailed
           /\ phaseFailed =>
                 /\ dpl.rollbacks = 1
                 /\ result.rollback # <<>> /\ result.rollback[1].triggered
                 /\ result.phases[Len(result.phases)] = "failed"
                 /\ preFlightFailed =>
                       /\ result.phases = <<"pre-check", "failed">>
                       /\ ~dpl.staged /\ ~dpl.rolledOut
                 /\ monitoringFailed =>
                       /\ result.phases = <<"pre-check", "deploy", "monitor", "failed">>
                       /\ ~dpl.rolledOut /\ dpl.validated = NULL
                 /\ validationFailed =>
                       result.phases
                         = <<"pre-check", "deploy", "monitor", "deploy", "validate", "failed">>
           /\ ~phaseFailed =>
                 /\ dpl.rollbacks = 0
                 /\ result.rollback = <<>>
                 /\ result.phases
                      = <<"pre-check", "deploy", "monitor", "deploy", "validate", "complete">>

\* a deployment that passed monitoring with a degraded status, was rolled
\* out to production, failed its validation and was rolled back
C39_Witness ==
  /\ dpl.pc = "done"
  /\ dpl.monitored = <<"degraded", "healthy">>
  /\ dpl.rolledOut
  /\ dpl.validated = "degraded"
  /\ dpl.rollbacks = 1
  /\ ~dpl.result[1].success

\* C36: of two executeParallel calls running on the same build, at most one
\* marks a given task in_progress.
C36_NoDoubleDispatch ==
  \A e, f \in dispatchLog : e.task = f.task => e.by = f.by

StatusRank(st) ==
  CASE st = "pending" -> 0
    [] st = "assigned" -> 1
    [] st = "in_progress" -> 2
    [] st \in {"completed", "failed"} -> 3

\* C7: no step moves a task to an earlier status, and a completed or failed
\* task is never changed.
C7_StatusOnlyAdvances ==
  [][\A id \in 1..Len(agentTasks) :
       /\ StatusRank(agentTasks'[id].status) >= StatusRank(agentTasks[id].status)
       /\ agentTasks[id].status \in {"completed", "failed"}
            => agentTasks'[id] = agentTasks[id]]_vars

\* C8: a persisted task_handoff message, the latest for its task, always
\* has its task assigned to the message's recipient.
C8_HandoffAtomicWithMessage ==
  \A i \in 1..Len(agentCollaboration) :
     LET m == agentCollaboration[i]
     IN  ( /\ m.messageType = "task_handoff"
           /\ m.taskId \in 1..Len(agentTasks)
           /\ \A j \in (i + 1)..Len(agentCollaboration) :
                 agentCollaboration[j].taskId # m.taskId )
         => agentTasks[m.taskId].assignedAgent = m.toAgentId

\* C9: every model selectModel returns has its availability flag set.
C9_NeverSelectsUnavailableModel ==
  \A r \in routed : r.model \in available

(***************************************************************************)
(* C10.  The score of the claim, compared exactly.                         *)
(***************************************************************************)
\* score(a) >= score(b), scores as rationals over 500 * maxLoad
ScoreAtLeast(a, b, task) ==
  a.successRate * Max(0, a.maxLoad - a.currentLoad) * (5 + matchCount(a, task)) * b.maxLoad
    >= b.successRate * Max(0, b.maxLoad - b.currentLoad) * (5 + matchCount(b, task)) * a.maxLoad

ScoreEqual(a, b, task) == ScoreAtLeast(a, b, task) /\ ScoreAtLeast(b, a, task)

PoolIndex(agent) == CHOOSE i \in DOMAIN pool : pool[i] = agent

====
